---- MODULE Spec2Model ----
(***************************************************************************)
(* Model of the volumetric ray marcher of volume_render.cpp:                *)
(* VolumeRenderer::trace, intersectBox, sampleDensity, traceShadowRay and   *)
(* the parallel pixel loop of main.                                         *)
(*                                                                          *)
(* Number representation.  Lengths along a ray (t, tMin, tMax, stepSize)    *)
(* are counted in HALF world units, so every value below is an integer;     *)
(* t is a float, and Fl rounds it as the program's t += stepSize does (the  *)
(* products of intersectBox are taken exact).  Points are counted in        *)
(* SIXTHS of a world unit (ray directions are unit vectors D/|D| with       *)
(* integer D and |D| in {1,3}).  A transmittance is represented by its      *)
(* optical depth d in half units: the float it stands for is exp(-d/2),     *)
(* and the depth Underflow stands for the float 0.0 (single precision       *)
(* rounds exp(-x) and every product below 2^-150 to zero).                  *)
(***************************************************************************)
EXTENDS Integers, Sequences, FiniteSets, TLC

\* ----------------------------------------------------------------- bounds
\* stepSize (constructor parameter) ranges over 1..MaxStep half world units
MaxStep == 2
\* ray origins have integer coordinates, x in -MaxOrigin..MaxOrigin
MaxOrigin == 1
\* the samples of a march are counted up to MaxSamples (more than any march
\* whose t advances by stepSize at every step takes in the model)
MaxSamples == 8

\* ------------------------------------------------------ program constants
\* traceShadowRay: while (t < 20.0f ...), in world units
ShadowMaxDist == 20
\* transmittance > 0.01f  <=>  depth/2 < ln(100) = 4.605...  (in 1/1000)
Ln100Milli == 4605
\* float underflow: exp(-x) = 0.0f  <=>  x >= 150 ln 2 = 103.972... (in 1/1000)
LnFloatMinMilli == 103972

\* ------------------------------------------------------------ input sets
\* values a voxel of the density grid can hold (any float; a negative one,
\* zero, moderate ones, one that drops below the cutoff in one step, and
\* one whose exponential underflows single precision)
Densities == {-1, 0, 2, 10, 250}

\* candidate active voxels (index space)
Cands == {<<0, 0, 0>>, <<1, 2, 2>>}

\* value of sampleDensity outside the active voxels (the grid's background)
Background == 0

\* the grids: a non-empty set of active voxels, each with a value
Grids == UNION {[A -> Densities] : A \in (SUBSET Cands) \ {{}}}

\* ray directions before normalisation: integer vectors of length 3 with no
\* zero component
Dirs == {<<a, b, c>> : a \in {-1, 1}, b \in {-2, 2}, c \in {-2, 2}}
          \cup {<<2, 1, 2>>, <<2, 2, 1>>, <<-2, -1, -2>>}

Origins == {<<x, 2 * y, 2 * y>> : x \in -MaxOrigin..MaxOrigin, y \in -1..1}
             \cup {<<2, 4, 4>>}

\* light directions before normalisation (length 1 or 3)
LightDirs == {<<0, 1, 0>>, <<1, 2, 2>>}

\* voxel sizes of the grid's index-to-world transform (world = index * size)
VoxelSizes == {1, 2}

VARIABLES
  grid,        \* VolumeRenderer::grid: active voxel -> value
  voxelSize,   \* the grid's transform: uniform voxel size
  lightDir,    \* VolumeRenderer::lightDir (before normalisation)
  stepSize,    \* VolumeRenderer::stepSize, in half world units
  rayO, rayD,  \* the Ray handed to trace
  pc,          \* position in trace: "start", "march", "done"
  hit,         \* result of intersectBox
  tMin, tMax,  \* outputs of intersectBox, half world units
  t,           \* trace: float t
  transmittance, \* trace: float transmittance, as an optical depth
  color,       \* trace: Vec3 color, as the sequence of the terms added
  result,      \* the value trace returned (sequence of terms)
  nSamples,    \* number of sampleDensity calls of the primary march
  nShadow,     \* number of traceShadowRay calls
  last,        \* what the last loop iteration did (history record)
  task,        \* main: the iterations (x, y) of the parallel pixel loop
  pixels,      \* main: std::vector<Vec3> pixels, index -> color
  nWrites,     \* number of assignments made to each cell of pixels
  accKey,      \* VolumeRenderer::accessor: key of the cached leaf node
  accNode,     \* VolumeRenderer::accessor: pointer to the cached leaf node
  crashed,     \* the process died (null pointer read through the accessor)
  argc,        \* main: argc (the program name included)
  env,         \* the file system: whether the input file can be opened,
               \* whether it holds a grid named "density", whether the
               \* output file can be opened
  width,       \* main: int width
  height,      \* main: int height
  mainPc,      \* position in main
  io,          \* the I/O done so far, in order (history)
  exitStatus,  \* the value main returned; <<>> while it runs
  outFile,     \* the bytes of the output file; <<>> while there is none
  image,       \* the Image object: width, height and the three channels
  lastOp       \* the last Image call and the image before it (history)

\* the state of one call of trace
tvars == <<rayO, rayD, pc, hit, tMin, tMax, t, transmittance, color, result,
           nSamples, nShadow, last>>
\* the state of the parallel pixel loop
rvars == <<task, pixels, nWrites, accKey, accNode, crashed>>
\* the renderer's configuration
cvars == <<grid, voxelSize, lightDir, stepSize>>

\* the state of a main function and of its Image
mvars == <<argc, env, width, height, mainPc, io, exitStatus, outFile, image, lastOp>>

vars == <<cvars, tvars, rvars, mvars>>

\* ------------------------------------------------------------- arithmetic
Max(a, b) == IF a >= b THEN a ELSE b
Min(a, b) == IF a <= b THEN a ELSE b

\* Vec3::length of an integer direction (1 or 3)
Norm(D) == CHOOSE n \in 1..3 : n * n = D[1] * D[1] + D[2] * D[2] + D[3] * D[3]

\* the float nearest to x half units: floats carry 24 significant bits, so
\* every |x| < 2^24 is exact and larger ones are rounded to a multiple of
\* their unit in the last place, ties to the even significand
FloatExact == 16777216
RECURSIVE Ulp(_)
Ulp(x) == IF x < FloatExact THEN 1 ELSE 2 * Ulp(x \div 2)
Fl(x) ==
  LET u == Ulp(IF x < 0 THEN 0 - x ELSE x)
      q == x \div u
      r == x - q * u
  IN  IF 2 * r < u THEN q * u
      ELSE IF 2 * r > u THEN (q + 1) * u
      ELSE IF q % 2 = 0 THEN q * u ELSE (q + 1) * u

\* the depth that stands for the float 0.0
Underflow == (2 * LnFloatMinMilli) \div 1000 + 1

\* transmittance * exp(-e/2) in float: depths add, products below 2^-150
\* round to 0.0, and 0.0 times anything finite stays 0.0
MulExp(d, e) ==
  IF d >= Underflow \/ d + e >= Underflow THEN Underflow ELSE d + e

\* transmittance > 0.01f
AboveCutoff(d) == d * 1000 < 2 * Ln100Milli

\* ------------------------------------------------------------ the field
Round(p6, vs) == (p6 + 3 * vs) \div (6 * vs)

\* grid->transform().worldToIndexCellCentered(pos): nearest voxel, per
\* component floor(x / voxelSize + 0.5); pos in sixths of a world unit
worldToIndexCellCentered(p6) ==
  <<Round(p6[1], voxelSize), Round(p6[2], voxelSize), Round(p6[3], voxelSize)>>

\* accessor.getValue(ijk): the voxel's value, the background elsewhere
getValue(ijk) == IF ijk \in DOMAIN grid THEN grid[ijk] ELSE Background

sampleDensity(p6) == getValue(worldToIndexCellCentered(p6))

\* grid->evalActiveVoxelBoundingBox(): componentwise min and max of the
\* active voxels' index coordinates, copied into t0 and t1
SetMin(S) == CHOOSE m \in S : \A x \in S : m <= x
SetMax(S) == CHOOSE m \in S : \A x \in S : m >= x
BoxMin(g) == [a \in 1..3 |-> SetMin({c[a] : c \in DOMAIN g})]
BoxMax(g) == [a \in 1..3 |-> SetMax({c[a] : c \in DOMAIN g})]
t0 == BoxMin(grid)
t1 == BoxMax(grid)

\* ------------------------------------------------------------- the rays
\* ray.origin + ray.direction * t, in sixths (t in halves, D/|D| the unit
\* direction)
PointAt(o6, D, tt) == [a \in 1..3 |-> o6[a] + (3 * D[a] * tt) \div Norm(D)]
Sixths(o) == [a \in 1..3 |-> 6 * o[a]]
RayPos(tt) == PointAt(Sixths(rayO), rayD, tt)

\* (face - origin) * invDir for one axis, invDir = |D| / D[a]; in halves
SlabT(face, o, D, a) ==
  (2 * Norm(D) * (face - o[a]) * D[a]) \div (D[a] * D[a])

\* intersectBox with the z slab left out of tMin
intersectBoxTwoAxes(o, D) ==
  LET tMin3 == [a \in 1..3 |-> SlabT(t0[a], o, D, a)]
      tMax3 == [a \in 1..3 |-> SlabT(t1[a], o, D, a)]
      far   == [a \in 1..3 |-> Max(tMin3[a], tMax3[a])]
      near  == [a \in 1..3 |-> Min(tMin3[a], tMax3[a])]
      lo    == Max(near[1], near[2])
      hi    == Min(Min(far[1], far[2]), far[3])
  IN  [hit |-> hi >= lo /\ hi > 0, tMin |-> lo, tMax |-> hi]

\* intersectBox without the test tMax > 0
intersectBoxNoBehindTest(o, D) ==
  LET tMin3 == [a \in 1..3 |-> SlabT(t0[a], o, D, a)]
      tMax3 == [a \in 1..3 |-> SlabT(t1[a], o, D, a)]
      far   == [a \in 1..3 |-> Max(tMin3[a], tMax3[a])]
      near  == [a \in 1..3 |-> Min(tMin3[a], tMax3[a])]
      lo    == Max(Max(near[1], near[2]), near[3])
      hi    == Min(Min(far[1], far[2]), far[3])
  IN  [hit |-> hi >= lo, tMin |-> lo, tMax |-> hi]

\* VolumeRenderer::intersectBox: [hit, tMin, tMax]
intersectBox(o, D) ==
  LET tMin3 == [a \in 1..3 |-> SlabT(t0[a], o, D, a)]
      tMax3 == [a \in 1..3 |-> SlabT(t1[a], o, D, a)]
      far   == [a \in 1..3 |-> Max(tMin3[a], tMax3[a])]
      near  == [a \in 1..3 |-> Min(tMin3[a], tMax3[a])]
      lo    == Max(Max(near[1], near[2]), near[3])
      hi    == Min(Min(far[1], far[2]), far[3])
  IN  [hit |-> hi >= lo /\ hi > 0, tMin |-> lo, tMax |-> hi]

\* -------------------------------------------------------- the shadow ray
\* one iteration of the loop of traceShadowRay from sample point p6
ShadowStep(p6, s) ==
  LET samplePos == PointAt(p6, lightDir, s.t)
      density   == sampleDensity(samplePos)
  IN  [t |-> Fl(s.t + stepSize),
       density |-> density,
       transmittance |-> MulExp(s.transmittance, density * stepSize)]

ShadowGuard(s) == s.t < 2 * ShadowMaxDist /\ AboveCutoff(s.transmittance)

\* the loop states of traceShadowRay, from its initial one to its last
RECURSIVE ShadowMarch(_, _)
\* (the run so far is bound to its value before the next step is taken)
ShadowMarch(p6, run) ==
  IF ShadowGuard(run[Len(run)])
  THEN CHOOSE r \in {ShadowMarch(p6, longer) :
                       longer \in {Append(run, ShadowStep(p6, run[Len(run)]))}} :
         TRUE
  ELSE run

ShadowRun(p6) == ShadowMarch(p6, <<[t |-> 0, density |-> 0, transmittance |-> 0]>>)

\* VolumeRenderer::traceShadowRay: the transmittance it returns
traceShadowRay(p6) == ShadowRun(p6)[Len(ShadowRun(p6))].transmittance

\* ------------------------------------------------------------- radiance
\* one term of color: phase * lightDensity * transmittance * extinction,
\* phase = 1/(4 pi); it is 0.0 when a factor underflowed
TermIsZero(term) ==
  \/ term.extinction = 0
  \/ MulExp(term.lightDensity, term.transmittance) = Underflow
Positive(c) == \E i \in 1..Len(c) : ~TermIsZero(c[i])

NoIter == [iter |-> FALSE, density |-> 0, before |-> 0, colorBefore |-> <<>>,
           shadow |-> <<>>]

\* no main function is running
NoMain ==
  /\ argc = 0 /\ env = <<>> /\ width = 0 /\ height = 0
  /\ mainPc = "none" /\ io = <<>>
  /\ exitStatus = <<>> /\ outFile = <<>> /\ image = <<>> /\ lastOp = <<>>

\* ---------------------------------------------------------------- trace
Init ==
  /\ grid \in Grids
  /\ voxelSize \in VoxelSizes
  /\ lightDir \in LightDirs
  /\ stepSize \in 1..MaxStep
  /\ rayO \in Origins
  /\ rayD \in Dirs
  /\ pc = "start"
  /\ hit = FALSE
  /\ tMin = 0 /\ tMax = 0 /\ t = 0
  /\ transmittance = 0
  /\ color = <<>>
  /\ result = <<>>
  /\ nSamples = 0 /\ nShadow = 0
  /\ last = NoIter
  /\ task = <<>> /\ pixels = <<>> /\ nWrites = <<>>
  /\ accKey = <<>> /\ accNode = <<>> /\ crashed = FALSE
  /\ NoMain

\* trace, lines 82-90: the box test and the initialisation of the march
Intersect ==
  /\ pc = "start"
  /\ LET r == intersectBox(rayO, rayD) IN
       /\ hit' = r.hit
       /\ tMin' = r.tMin /\ tMax' = r.tMax
       /\ IF r.hit
          THEN pc' = "march" /\ t' = r.tMin
          ELSE pc' = "done" /\ t' = t
  /\ UNCHANGED <<cvars, mvars, rvars, rayO, rayD, transmittance, color, result,
                 nSamples, nShadow, last>>

\* while (t < tMax && transmittance > 0.01f)
LoopGuard == t < tMax /\ AboveCutoff(transmittance)

\* the density test written as density >= 0
DenseOrZero(density) == density >= 0

\* the density test written as density != 0
DenseNonZero(density) == density # 0

\* if (density > 0.0f)
Dense(density) == density > 0

\* the color after a dense sample
Accumulate(c, lightDensity, tBefore, tAfter, extinction) ==
  Append(c, [lightDensity |-> lightDensity, transmittance |-> tAfter,
             extinction |-> extinction])

\* one iteration of the while loop of trace
MarchStep ==
  /\ pc = "march" /\ LoopGuard
  /\ LET pos     == RayPos(t)
         density == sampleDensity(pos)
     IN  IF Dense(density)
         THEN LET run        == ShadowRun(pos)
                  extinction == density * stepSize
                  after      == MulExp(transmittance, extinction)
              IN  /\ transmittance' = after
                  /\ color' = Accumulate(color, run[Len(run)].transmittance,
                                          transmittance, after, extinction)
                  /\ nShadow' = nShadow + 1
                  /\ last' = [iter |-> TRUE, density |-> density,
                              before |-> transmittance,
                              colorBefore |-> color, shadow |-> run]
         ELSE /\ UNCHANGED <<transmittance, color, nShadow>>
              /\ last' = [iter |-> TRUE, density |-> density,
                          before |-> transmittance,
                          colorBefore |-> color, shadow |-> <<>>]
  /\ nSamples' = IF nSamples < MaxSamples THEN nSamples + 1 ELSE nSamples
  /\ t' = Fl(t + stepSize)
  /\ UNCHANGED <<cvars, mvars, rvars, rayO, rayD, pc, hit, tMin, tMax, result>>

\* the loop exits and trace returns color
Return ==
  /\ pc = "march" /\ ~LoopGuard
  /\ pc' = "done"
  /\ result' = color
  /\ UNCHANGED <<cvars, mvars, rvars, rayO, rayD, hit, tMin, tMax, t, transmittance,
                 color, nSamples, nShadow, last>>

Next == Intersect \/ MarchStep \/ Return

Spec == Init /\ [][Next]_vars

\* the same renderer on a grid whose active voxels lie far from the origin,
\* where the floats along the ray are spaced wider than stepSize
FarVoxel == <<4194304, 8388608, 8388608>>
FarCands == {FarVoxel,
             <<FarVoxel[1] + 1, FarVoxel[2] + 2, FarVoxel[3] + 2>>}
FarGrids == [FarCands -> Densities]

FarInit ==
  /\ grid \in FarGrids
  /\ voxelSize \in VoxelSizes
  /\ lightDir \in LightDirs
  /\ stepSize \in 1..MaxStep
  /\ rayO \in Origins
  /\ rayD \in Dirs
  /\ pc = "start"
  /\ hit = FALSE
  /\ tMin = 0 /\ tMax = 0 /\ t = 0
  /\ transmittance = 0
  /\ color = <<>>
  /\ result = <<>>
  /\ nSamples = 0 /\ nShadow = 0
  /\ last = NoIter
  /\ task = <<>> /\ pixels = <<>> /\ nWrites = <<>>
  /\ accKey = <<>> /\ accNode = <<>> /\ crashed = FALSE
  /\ NoMain

SpecFar == FarInit /\ [][Next]_vars

\* the rays of one direction towards the far voxels and of one that misses
\* them; the thread that runs trace keeps running
FarRayInit == FarInit /\ rayD \in {<<1, 2, 2>>, <<2, 1, 2>>} /\ voxelSize = 1
SpecFarFair == FarRayInit /\ [][Next]_vars /\ WF_vars(Next)

\* ------------------------------------------------ the parallel pixel loop
\* main: int width, int height (the image of the model is Width x Height)
Width == 2
Height == 1

\* the iterations (x, y) of the collapsed loop nest
Pixels == {<<x, y>> : x \in 0..(Width - 1), y \in 0..(Height - 1)}
\* the index with the column left out
IndexNoColumn(p) == p[2] * Width

\* pixels[y * width + x]
Index(p) == p[2] * Width + p[1]
Cells == 0..(Width * Height - 1)

\* the scene of the render: two voxels of moderate density in the leaf node
\* at (0,0,0), each with a dense voxel above it (towards the light) in the
\* leaf node at (0,8,0); the camera, the light and the step size
DenseBelow == {<<0, 7, 0>>, <<4, 7, 3>>}
DenseAbove == {<<0, 8, 0>>, <<4, 8, 3>>}
RenderGrids ==
  {[c \in DenseBelow \cup DenseAbove |-> IF c \in DenseAbove THEN 10 ELSE g[c]] :
     g \in [DenseBelow -> {1, 2}]}
cameraPos == <<-1, 5, -2>>
RenderLight == <<0, 1, 0>>
\* stepSize of the render, in half world units
RenderStep == 2

\* camera.getRay(u, v) for the pixel (x, y): the direction (before
\* normalisation) of the ray through the pixel; distinct directions for the
\* pixels of a row
PixelDirs == << <<1, 2, 2>>, <<2, 1, 2>>, <<2, 2, 1>> >>
getRay(p) ==
  IF p[2] = 0 THEN PixelDirs[(p[1] % 3) + 1]
  ELSE [a \in 1..3 |-> 0 - PixelDirs[(p[1] % 3) + 1][a]]

\* the leaf nodes of the grid's tree hold LeafDim^3 voxels each; the key of
\* a voxel's leaf is its coordinate with the low bits cleared
LeafDim == 8
LeafKey(ijk) == [a \in 1..3 |-> LeafDim * (ijk[a] \div LeafDim)]
Leaves == {LeafKey(c) : c \in DOMAIN grid}

\* the value the leaf node `node` holds at the offset of voxel ijk
ValueInNode(node, ijk) ==
  getValue([a \in 1..3 |-> node[a] + (ijk[a] - LeafKey(ijk)[a])])

IdleTask ==
  [pc |-> "idle", mode |-> "primary", D |-> <<0, 0, 0>>, t |-> 0, tMax |-> 0,
   transmittance |-> 0, color |-> <<>>, density |-> 0, sp |-> <<0, 0, 0>>,
   st |-> 0, sT |-> 0, ijk |-> <<0, 0, 0>>]

\* trace at the head of its while loop: the next sample, or the return
PrimaryHead(k) ==
  IF k.t < k.tMax /\ AboveCutoff(k.transmittance)
  THEN [k EXCEPT !.pc = "key", !.mode = "primary",
                 !.ijk = worldToIndexCellCentered(
                           PointAt(Sixths(cameraPos), k.D, k.t))]
  ELSE [k EXCEPT !.pc = "store"]

\* traceShadowRay at the head of its while loop: the next sample, or the
\* return into trace (lines 104-113)
ShadowHead(k) ==
  IF ShadowGuard([t |-> k.st, transmittance |-> k.sT])
  THEN [k EXCEPT !.pc = "key", !.mode = "shadow",
                 !.ijk = worldToIndexCellCentered(
                           PointAt(k.sp, lightDir, k.st))]
  ELSE LET extinction == k.density * stepSize
           after      == MulExp(k.transmittance, extinction)
       IN  PrimaryHead([k EXCEPT
             !.transmittance = after,
             !.color = Accumulate(k.color, k.sT, k.transmittance, after,
                                  extinction),
             !.t = k.t + stepSize])

\* the task goes on with the value v that accessor.getValue returned
Deliver(k, v) ==
  IF k.mode = "primary"
  THEN IF Dense(v)
       THEN ShadowHead([k EXCEPT
              !.density = v,
              !.sp = PointAt(Sixths(cameraPos), k.D, k.t),
              !.st = 0, !.sT = 0])
       ELSE PrimaryHead([k EXCEPT !.t = k.t + stepSize])
  ELSE ShadowHead([k EXCEPT !.sT = MulExp(k.sT, v * stepSize),
                            !.st = k.st + stepSize])

\* lines 217-221 up to the first field sample: the ray and the box test
BeginTask(p) ==
  LET r == intersectBox(cameraPos, getRay(p)) IN
    IF r.hit
    THEN PrimaryHead([IdleTask EXCEPT !.D = getRay(p), !.t = r.tMin,
                                      !.tMax = r.tMax])
    ELSE [IdleTask EXCEPT !.D = getRay(p), !.pc = "store"]

\* the loop run by one thread: every getValue finds the cache as the same
\* thread left it, and returns the voxel's value
RECURSIVE SeqRun(_)
SeqRun(k) == IF k.pc = "store" THEN k.color
             ELSE SeqRun(Deliver(k, getValue(k.ijk)))
SeqPixel(p) == SeqRun(BeginTask(p))

RenderInit ==
  /\ grid \in RenderGrids
  /\ voxelSize = 1
  /\ lightDir = RenderLight
  /\ stepSize = RenderStep
  /\ rayO = cameraPos /\ rayD = PixelDirs[1]
  /\ pc = "start" /\ hit = FALSE
  /\ tMin = 0 /\ tMax = 0 /\ t = 0
  /\ transmittance = 0 /\ color = <<>> /\ result = <<>>
  /\ nSamples = 0 /\ nShadow = 0 /\ last = NoIter
  /\ task = [p \in Pixels |-> IdleTask]
  /\ pixels = [i \in Cells |-> <<>>]
  /\ nWrites = [i \in Cells |-> 0]
  /\ accKey = <<>> /\ accNode = <<>>
  /\ crashed = FALSE
  /\ NoMain

\* an iteration starts: getRay, intersectBox, up to the first sampleDensity
Begin(p) ==
  /\ ~crashed /\ task[p].pc = "idle"
  /\ task' = [task EXCEPT ![p] = BeginTask(p)]
  /\ UNCHANGED <<cvars, mvars, tvars, pixels, nWrites, accKey, accNode, crashed>>

\* accessor.getValue: the test whether the cached key is the voxel's leaf
\* (a read of the key).  On a miss the tree is walked from the root: with
\* no leaf there, the background is returned and the leaf cache is left
\* alone
ReadKey(p) ==
  /\ ~crashed /\ task[p].pc = "key"
  /\ LET k == task[p] IN
       task' = [task EXCEPT ![p] =
         IF accKey = LeafKey(k.ijk) THEN [k EXCEPT !.pc = "node"]
         ELSE IF LeafKey(k.ijk) \in Leaves THEN [k EXCEPT !.pc = "insertKey"]
         ELSE Deliver(k, getValue(k.ijk))]
  /\ UNCHANGED <<cvars, mvars, tvars, pixels, nWrites, accKey, accNode, crashed>>

\* accessor.getValue on a cache hit: the value is read through the cached
\* node pointer (a read of the pointer); a null pointer ends the process
ReadNode(p) ==
  /\ ~crashed /\ task[p].pc = "node"
  /\ IF accNode = <<>>
     THEN crashed' = TRUE /\ task' = task
     ELSE /\ crashed' = crashed
          /\ task' = [task EXCEPT ![p] =
                        Deliver(task[p], ValueInNode(accNode, task[p].ijk))]
  /\ UNCHANGED <<cvars, mvars, tvars, pixels, nWrites, accKey, accNode>>

\* accessor.getValue on a cache miss: the accessor records the leaf found,
\* first its key (a write) ...
InsertKey(p) ==
  /\ ~crashed /\ task[p].pc = "insertKey"
  /\ accKey' = LeafKey(task[p].ijk)
  /\ task' = [task EXCEPT ![p].pc = "insertNode"]
  /\ UNCHANGED <<cvars, mvars, tvars, pixels, nWrites, accNode, crashed>>

\* ... then the node pointer (a write); the value comes from the leaf found
InsertNode(p) ==
  /\ ~crashed /\ task[p].pc = "insertNode"
  /\ accNode' = LeafKey(task[p].ijk)
  /\ task' = [task EXCEPT ![p] = Deliver(task[p], getValue(task[p].ijk))]
  /\ UNCHANGED <<cvars, mvars, tvars, pixels, nWrites, accKey, crashed>>

\* pixels[y * width + x] = renderer.trace(ray, rng)
Store(p) ==
  /\ ~crashed /\ task[p].pc = "store"
  /\ pixels' = [pixels EXCEPT ![Index(p)] = task[p].color]
  /\ nWrites' = [nWrites EXCEPT ![Index(p)] = @ + 1]
  /\ task' = [task EXCEPT ![p].pc = "done"]
  /\ UNCHANGED <<cvars, mvars, tvars, accKey, accNode, crashed>>

RenderNext ==
  \E p \in Pixels :
    \/ Begin(p)
    \/ ReadKey(p)
    \/ ReadNode(p)
    \/ InsertKey(p)
    \/ InsertNode(p)
    \/ Store(p)

SpecRender == RenderInit /\ [][RenderNext]_vars

AllDone == \A p \in Pixels : task[p].pc = "done"

\* ------------------------------------------- main of the volume renderer
\* the density grid of the input file
MainGrids == {g \in RenderGrids : \A c \in DenseBelow : g[c] = 1}

\* saveToPPM, line 163: the decimal digits of a non-negative int, as bytes
RECURSIVE Decimal(_)
Decimal(n) == IF n < 10 THEN <<48 + n>>
              ELSE Decimal(n \div 10) \o <<48 + (n % 10)>>

\* file << "P6\n" << width << " " << height << "\n255\n"
PPMHeader(w, h) ==
  <<80, 54, 10>> \o Decimal(w) \o <<32>> \o Decimal(h) \o <<10, 50, 53, 53, 10>>

MainInit ==
  /\ argc \in 1..3
  /\ env \in [exists : BOOLEAN, hasDensity : BOOLEAN, floatGrid : BOOLEAN,
              memOk : BOOLEAN, outOk : BOOLEAN]
  /\ width = 0 /\ height = 0
  /\ mainPc = "args" /\ io = <<>> /\ exitStatus = <<>> /\ outFile = <<>>
  /\ image = <<>> /\ lastOp = <<>>
  /\ grid \in MainGrids
  /\ voxelSize = 1
  /\ lightDir = RenderLight
  /\ stepSize = RenderStep
  /\ rayO = cameraPos /\ rayD = PixelDirs[1]
  /\ pc = "start" /\ hit = FALSE
  /\ tMin = 0 /\ tMax = 0 /\ t = 0
  /\ transmittance = 0 /\ color = <<>> /\ result = <<>>
  /\ nSamples = 0 /\ nShadow = 0 /\ last = NoIter
  /\ task = <<>> /\ pixels = <<>> /\ nWrites = <<>>
  /\ accKey = <<>> /\ accNode = <<>>
  /\ crashed = FALSE

\* a step of main that touches only its position, its I/O and its status
MainStep(nextPc, events, status) ==
  /\ mainPc' = nextPc
  /\ io' = io \o events
  /\ exitStatus' = status
  /\ UNCHANGED <<cvars, tvars, rvars, argc, env, width, height, outFile,
                 image, lastOp>>

\* the test of the argument count accepting extra arguments
ArgsOkAtLeast == argc >= 2

\* if (argc != 2) is false
ArgsOk == argc = 2

\* lines 176-179: the usage message and return 1
CheckArgs ==
  /\ mainPc = "args"
  /\ IF ArgsOk THEN MainStep("open", <<>>, exitStatus)
     ELSE MainStep("exited", <<"usage">>, 1)

\* lines 186-187: file.open() throws when the file cannot be opened
OpenInput ==
  /\ mainPc = "open"
  /\ IF env.exists THEN MainStep("read", <<"openInput">>, exitStatus)
     ELSE MainStep("catch", <<>>, exitStatus)

\* lines 190-191: readGrid throws when the file has no grid of that name
ReadGrid ==
  /\ mainPc = "read"
  /\ IF env.hasDensity THEN MainStep("setup", <<"readGrid">>, exitStatus)
     ELSE MainStep("catch", <<>>, exitStatus)

\* lines 194-212: the camera, the renderer (a grid that is not a FloatGrid
\* is a null pointer, which the constructor dereferences), the random
\* generator and the pixel buffer (whose allocation can throw)
Setup ==
  /\ mainPc = "setup"
  /\ IF ~env.floatGrid
     THEN /\ crashed' = TRUE
          /\ UNCHANGED <<cvars, tvars, mvars, task, pixels, nWrites, accKey,
                         accNode>>
     ELSE IF ~env.memOk
     THEN MainStep("catch", <<>>, exitStatus)
     ELSE /\ mainPc' = "parallel"
          /\ width' = Width /\ height' = Height
          /\ task' = [p \in Pixels |-> IdleTask]
          /\ pixels' = [i \in Cells |-> <<>>]
          /\ nWrites' = [i \in Cells |-> 0]
          /\ UNCHANGED <<cvars, tvars, accKey, accNode, crashed, argc, env,
                         io, exitStatus, outFile, image, lastOp>>

\* lines 214-223: the iterations of the parallel loop
Region == mainPc = "parallel" /\ RenderNext

\* the loop left as soon as one iteration is done
NoBarrier == \E p \in Pixels : task[p].pc = "done"

\* line 223: the implicit barrier at the end of the parallel loop
Barrier == AllDone

EndRegion ==
  /\ mainPc = "parallel" /\ ~crashed /\ Barrier
  /\ MainStep("save", <<>>, exitStatus)

\* line 226 with lines 161-173: saveToPPM opens the output file and writes
\* the header and the pixels; on a stream that failed to open every write is
\* ignored, and nothing is returned
Save ==
  /\ mainPc = "save"
  /\ mainPc' = "print"
  /\ IF env.outOk
     THEN /\ io' = io \o <<"openOutput", "writeImage">>
          /\ outFile' = <<PPMHeader(width, height), pixels>>
     ELSE /\ io' = io \o <<"openOutputFailed">>
          /\ outFile' = outFile
  /\ UNCHANGED <<cvars, tvars, rvars, argc, env, width, height, exitStatus,
                 image, lastOp>>

\* line 227
PrintSaved ==
  /\ mainPc = "print" /\ MainStep("close", <<"printSaved">>, exitStatus)

\* line 229
CloseInput ==
  /\ mainPc = "close" /\ MainStep("return", <<"closeInput">>, exitStatus)

\* line 236
ReturnZero ==
  /\ mainPc = "return" /\ MainStep("exited", <<>>, 0)

\* lines 231-234
Catch ==
  /\ mainPc = "catch" /\ MainStep("exited", <<"error">>, 1)

MainNext ==
  \/ CheckArgs \/ OpenInput \/ ReadGrid \/ Setup \/ Region \/ EndRegion
  \/ Save \/ PrintSaved \/ CloseInput \/ ReturnZero \/ Catch

SpecMain == MainInit /\ [][MainNext]_vars

\* ------------------------------------------------- the Image class (Image.h)
\* and the end of main.cpp, which saves it.  A double is the one-element
\* sequence of its value in halves, or NaN
MaxDim == 2
NaN == <<>>
Dbl(n) == <<n>>
One == Dbl(2)
Zero == Dbl(0)
\* operator< of double: false as soon as an operand is NaN
Less(a, b) == a # NaN /\ b # NaN /\ a[1] < b[1]
\* std::clamp(v, lo, hi): (v < lo) ? lo : (hi < v) ? hi : v
clamp(v, lo, hi) == IF Less(v, lo) THEN lo ELSE IF Less(hi, v) THEN hi ELSE v

\* the colors handed to setPixel and fill
Rgbs == {<<Dbl(-1), Dbl(1), Dbl(3)>>, <<Dbl(2), Dbl(0), Dbl(5)>>,
         <<Dbl(1), Dbl(-4), Dbl(2)>>, <<NaN, Dbl(1), Dbl(0)>>}
\* the coordinates handed to setPixel
Coords == (0 - 1)..MaxDim

ImageCells(w, h) == {<<x, y>> : x \in 0..(w - 1), y \in 0..(h - 1)}

\* Image(int w, int h)
Image(w, h) ==
  [width |-> w, height |-> h,
   red   |-> [c \in ImageCells(w, h) |-> Zero],
   green |-> [c \in ImageCells(w, h) |-> Zero],
   blue  |-> [c \in ImageCells(w, h) |-> Zero]]

ImageInit ==
  /\ \E w \in 1..MaxDim, h \in 1..MaxDim : image = Image(w, h)
  /\ lastOp = [op |-> "Image", x |-> 0, y |-> 0]
  /\ env \in [outOk : BOOLEAN]
  /\ mainPc = "render" /\ io = <<>> /\ exitStatus = <<>> /\ outFile = <<>>
  /\ argc = 1 /\ width = 0 /\ height = 0
  /\ grid = <<>> /\ voxelSize = 1 /\ lightDir = <<>> /\ stepSize = 1
  /\ rayO = <<>> /\ rayD = <<>>
  /\ pc = "none" /\ hit = FALSE
  /\ tMin = 0 /\ tMax = 0 /\ t = 0
  /\ transmittance = 0 /\ color = <<>> /\ result = <<>>
  /\ nSamples = 0 /\ nShadow = 0 /\ last = NoIter
  /\ task = <<>> /\ pixels = <<>> /\ nWrites = <<>>
  /\ accKey = <<>> /\ accNode = <<>> /\ crashed = FALSE

\* if (x >= 0 && x < width && y >= 0 && y < height)
InImage(x, y) == x >= 0 /\ x < image.width /\ y >= 0 /\ y < image.height

\* void setPixel(int x, int y, double r, double g, double b)
setPixel(x, y, rgb) ==
  /\ mainPc = "render"
  /\ image' = IF InImage(x, y)
              THEN [image EXCEPT
                      !.red[<<x, y>>]   = clamp(rgb[1], Zero, One),
                      !.green[<<x, y>>] = clamp(rgb[2], Zero, One),
                      !.blue[<<x, y>>]  = clamp(rgb[3], Zero, One)]
              ELSE image
  /\ lastOp' = [op |-> "setPixel", x |-> x, y |-> y]
  /\ UNCHANGED <<cvars, tvars, rvars, argc, env, width, height, mainPc, io,
                 exitStatus, outFile>>

\* void fill(double r, double g, double b)
fill(rgb) ==
  /\ mainPc = "render"
  /\ image' = [image EXCEPT
                 !.red   = [c \in DOMAIN image.red |-> clamp(rgb[1], Zero, One)],
                 !.green = [c \in DOMAIN image.green |-> clamp(rgb[2], Zero, One)],
                 !.blue  = [c \in DOMAIN image.blue |-> clamp(rgb[3], Zero, One)]]
  /\ lastOp' = [op |-> "fill", x |-> 0, y |-> 0]
  /\ UNCHANGED <<cvars, tvars, rvars, argc, env, width, height, mainPc, io,
                 exitStatus, outFile>>

\* savePPM, lines 70-72: static_cast<int>(v * 255); the conversion of a NaN
\* is undefined, the builds give 0 or the smallest int
IntsOf(v) == IF v = NaN THEN {0, 0 - 2147483647 - 1}
             ELSE {(v[1] * 255) \div 2}
\* the files savePPM can write: the header in bytes, then the numbers of
\* each row in order
PPMTexts ==
  LET cells == [k \in 1..(image.width * image.height) |->
                  <<(k - 1) % image.width, (k - 1) \div image.width>>]
      triples(k) == {<<r, g, b>> : r \in IntsOf(image.red[cells[k]]),
                                   g \in IntsOf(image.green[cells[k]]),
                                   b \in IntsOf(image.blue[cells[k]])}
      all == UNION {triples(k) : k \in 1..Len(cells)}
  IN  {<<<<80, 51, 10>> \o Decimal(image.width) \o <<32>>
           \o Decimal(image.height) \o <<10, 50, 53, 53, 10>>, body>> :
         body \in {b \in [1..Len(cells) -> all] :
                     \A k \in 1..Len(cells) : b[k] \in triples(k)}}

\* main.cpp, lines 113-121, with Image::savePPM (lines 56-80): a stream that
\* failed to open is reported and answered with false, and main returns 1
SaveImage ==
  /\ mainPc = "render"
  /\ mainPc' = "exited"
  /\ lastOp' = [op |-> "savePPM", x |-> 0, y |-> 0]
  /\ IF env.outOk
     THEN /\ outFile' \in PPMTexts
          /\ io' = io \o <<"openOutput", "writeImage", "printSaved">>
          /\ exitStatus' = 0
     ELSE /\ outFile' = outFile
          /\ io' = io \o <<"openOutputFailed", "error", "error">>
          /\ exitStatus' = 1
  /\ UNCHANGED <<cvars, tvars, rvars, argc, env, width, height, image>>

ImageNext ==
  \/ \E x \in Coords, y \in Coords, rgb \in Rgbs : setPixel(x, y, rgb)
  \/ \E rgb \in Rgbs : fill(rgb)
  \/ SaveImage

SpecImage == ImageInit /\ [][ImageNext]_vars

\* ------------------------------------------------------------- saveToPPM
\* a channel of a Vec3 color is counted in 1/510: 510 is 1.0f
PPMColors == {<<510, 0, 0>>, <<255, 509, 1020>>, <<1, 511, 3>>}

\* the byte written with the std::min left out: the conversion wraps
ByteNoMin(c) == (c \div 2) % 256

\* static_cast<unsigned char>(std::min(c * 255.0f, 255.0f)), c >= 0
Byte(c) == IF c \div 2 < 255 THEN c \div 2 ELSE 255

\* lines 165-172: the three bytes of every element of the vector, in order
RECURSIVE PPMData(_)
PPMData(px) ==
  IF px = <<>> THEN <<>>
  ELSE <<Byte(Head(px)[1]), Byte(Head(px)[2]), Byte(Head(px)[3])>>
         \o PPMData(Tail(px))

saveToPPM(px, w, h) == PPMHeader(w, h) \o PPMData(px)

\* one wider image, whose width takes more than one digit
WideWidth == 10

PPMInit ==
  /\ width \in 1..MaxDim \cup {WideWidth} /\ height \in 1..MaxDim
  /\ width * height <= WideWidth
  /\ pixels \in [1..(width * height) -> PPMColors]
  /\ env \in [outOk : BOOLEAN]
  /\ mainPc = "save" /\ io = <<>> /\ exitStatus = <<>> /\ outFile = <<>>
  /\ argc = 2 /\ image = <<>> /\ lastOp = <<>>
  /\ grid = <<>> /\ voxelSize = 1 /\ lightDir = <<>> /\ stepSize = 1
  /\ rayO = <<>> /\ rayD = <<>>
  /\ pc = "none" /\ hit = FALSE
  /\ tMin = 0 /\ tMax = 0 /\ t = 0
  /\ transmittance = 0 /\ color = <<>> /\ result = <<>>
  /\ nSamples = 0 /\ nShadow = 0 /\ last = NoIter
  /\ task = <<>> /\ nWrites = <<>>
  /\ accKey = <<>> /\ accNode = <<>> /\ crashed = FALSE

\* void saveToPPM(filename, pixels, width, height), lines 161-173
SaveToPPM ==
  /\ mainPc = "save"
  /\ mainPc' = "saved"
  /\ IF env.outOk
     THEN /\ outFile' = saveToPPM(pixels, width, height)
          /\ io' = io \o <<"openOutput", "writeImage">>
     ELSE /\ outFile' = outFile
          /\ io' = io \o <<"openOutputFailed">>
  /\ UNCHANGED <<cvars, tvars, rvars, argc, env, width, height, exitStatus,
                 image, lastOp>>

SpecPPM == PPMInit /\ [][SaveToPPM]_vars

\* ---------------------------------------------------------- geometry used
\* by the properties (independent of intersectBox)
\* the point p6 (sixths) lies in the closed box [t0, t1]
InBox(p6) == \A a \in 1..3 : 6 * t0[a] <= p6[a] /\ p6[a] <= 6 * t1[a]

\* every ray parameter at which the ray meets a face plane is a whole number
\* of half units no larger in size than FarT
FarT == 6 * (MaxOrigin + 8)
ProbeTs == (0 - FarT)..FarT

OriginOutside == ~InBox(Sixths(rayO))
PointsAway == \A tt \in 1..FarT : ~InBox(RayPos(tt))

NearT(a) == Min(SlabT(t0[a], rayO, rayD, a), SlabT(t1[a], rayO, rayD, a))
FarSlabT(a) == Max(SlabT(t0[a], rayO, rayD, a), SlabT(t1[a], rayO, rayD, a))

\* world position (sixths) of the centre of voxel c
VoxelWorld(c) == [a \in 1..3 |-> 6 * voxelSize * c[a]]

\* ------------------------------------------------------------ properties

\* C1: at every sample whose density is > 0 the term added to color is
\* phase x shadowTransmittance x T_before x extinction, T_before being the
\* transmittance arriving at the sample (before this step's multiplication)
\* and extinction = density x stepSize.
C1_ColorUsesArrivingTransmittance ==
  (last.iter /\ last.density > 0) =>
    color = Append(last.colorBefore,
                   [lightDensity |-> last.shadow[Len(last.shadow)].transmittance,
                    transmittance |-> last.before,
                    extinction |-> last.density * stepSize])

\* C2: a negative field value is treated as zero density in both marches: at
\* a sample with density < 0 neither the primary march nor the shadow march
\* changes its running transmittance, and no color is added.
C2_NegativeIsZeroDensity ==
  /\ (last.iter /\ last.density < 0) =>
        (transmittance = last.before /\ color = last.colorBefore)
  /\ \A i \in 2..Len(last.shadow) :
        last.shadow[i].density < 0 =>
          last.shadow[i].transmittance = last.shadow[i - 1].transmittance

\* C3: the value traceShadowRay returns is in (0, 1] (depth >= 0 and not
\* underflowed), and is exactly 1.0 (depth 0) when every field value sampled
\* along the light direction is zero.
C3_ShadowInUnitInterval ==
  last.shadow # <<>> =>
    LET r == last.shadow[Len(last.shadow)].transmittance IN
      /\ r >= 0 /\ r # Underflow
      /\ (\A i \in 2..Len(last.shadow) : last.shadow[i].density = 0) => r = 0

\* C4 as stated: the running transmittance of the primary march starts at
\* 1.0, never increases from one step to the next and stays in (0, 1].
C4_TransmittanceInHalfOpenUnit ==
  /\ (~last.iter) => transmittance = 0
  /\ last.iter => transmittance >= last.before
  /\ transmittance >= 0 /\ transmittance # Underflow

\* C4 amended: the running transmittance of the primary march starts at 1.0,
\* never increases from one step to the next and stays in the closed
\* interval [0, 1] (it is 0.0 once the float product has underflowed).
C4_TransmittanceNonIncreasing ==
  /\ (~last.iter) => transmittance = 0
  /\ last.iter => transmittance >= last.before
  /\ transmittance >= 0
  /\ transmittance = Underflow => (last.iter /\ last.density > 0)

C4_Witness ==
  /\ pc = "done" /\ nShadow >= 2
  /\ transmittance > last.before /\ last.before > 0
  /\ transmittance < Underflow

\* C5: once the running transmittance is below the cutoff no further field
\* sample is taken and no further shadow ray is issued (every iteration
\* started above the cutoff), the color returned is the color accumulated at
\* that point, and in every case the number of samples is at most
\* ceil((tMax - tMin) / stepSize).
C5_EarlyExit ==
  /\ last.iter => AboveCutoff(last.before)
  /\ (pc = "done" /\ hit) => result = color
  /\ nSamples = 0 \/ (nSamples - 1) * stepSize < tMax - tMin

\* C6: intersectBox computes the slab interval: tMin is the largest per-axis
\* near parameter, tMax the smallest per-axis far parameter, the point
\* origin + t*direction lies in the closed box exactly when
\* tMin <= t <= tMax, and a hit is reported iff tMax >= tMin and tMax > 0.
C6_SlabInterval ==
  pc # "start" =>
    /\ \A a \in 1..3 : NearT(a) <= tMin /\ tMax <= FarSlabT(a)
    /\ \E a \in 1..3 : NearT(a) = tMin
    /\ \E a \in 1..3 : FarSlabT(a) = tMax
    /\ \A tt \in ProbeTs : InBox(RayPos(tt)) <=> (tMin <= tt /\ tt <= tMax)
    /\ hit <=> (tMax >= tMin /\ tMax > 0)

C6_Witness ==
  /\ pc = "march" /\ hit /\ 0 < tMin /\ tMin < tMax
  /\ InBox(RayPos(tMin)) /\ ~InBox(RayPos(tMin - 1))
  /\ InBox(RayPos(tMax)) /\ ~InBox(RayPos(tMax + 1))

\* C7: a ray whose origin lies outside the box and none of whose points at
\* t > 0 is inside the box is reported as a miss, and trace returns zero
\* radiance without sampling the field.
C7_AwayRaysMiss ==
  (pc # "start" /\ OriginOutside /\ PointsAway) =>
    (~hit /\ pc = "done" /\ result = <<>> /\ nSamples = 0 /\ nShadow = 0)

C7_Witness ==
  /\ pc = "done" /\ OriginOutside /\ PointsAway /\ ~hit
  /\ tMin < tMax /\ tMax < 0
  /\ \E tt \in ProbeTs : tt < 0 /\ InBox(RayPos(tt))

\* C8: for a field with exactly one active voxel, of positive density, trace
\* of a ray that passes through that voxel's world position returns a
\* radiance > 0, and trace of a ray that stays outside the bounding region
\* returns exactly zero.
C8_SingleVoxelVisible ==
  (pc = "done" /\ Cardinality(DOMAIN grid) = 1
     /\ \A c \in DOMAIN grid : grid[c] > 0) =>
    /\ (\E c \in DOMAIN grid, tt \in 1..FarT : RayPos(tt) = VoxelWorld(c))
          => Positive(result)
    /\ (\A tt \in ProbeTs : ~InBox(RayPos(tt))) => result = <<>>

\* C9: the pixel buffer the parallel loop produces is identical, cell for
\* cell, for every interleaving of the pixel tasks, and identical to the
\* buffer the same loop produces when run sequentially.
C9_ParallelEqualsSequential ==
  AllDone => \A p \in Pixels : pixels[Index(p)] = SeqPixel(p)

\* C10: no two pixel tasks access a common mutable object: besides its own
\* pixel cell a task only reads, so the accessor is never modified by a
\* task and no write of one task is concurrent with an access of another.
C10_NoSharedMutableState ==
  /\ [][accKey' = accKey /\ accNode' = accNode]_vars
  /\ [](\A p \in Pixels, q \in Pixels :
          (p # q /\ task[p].pc \in {"insertKey", "insertNode"})
            => task[q].pc \notin {"key", "node", "insertKey", "insertNode"})

\* C11: in the parallel pixel loop a cell of the pixel buffer changes only by
\* the store of the task (x, y) whose index y*width + x it is; every cell is
\* written at most once, by that one task, and when the loop has ended every
\* cell has been written exactly once.
C11_EachCellWrittenOnce ==
  /\ [][\A i \in Cells :
          (pixels'[i] # pixels[i] \/ nWrites'[i] # nWrites[i]) =>
            \E p \in Pixels :
              /\ i = p[2] * Width + p[1]
              /\ task[p].pc = "store" /\ task'[p].pc = "done"
              /\ nWrites'[i] = nWrites[i] + 1]_vars
  /\ [](\A i \in Cells :
          /\ nWrites[i] <= 1
          /\ nWrites[i] =
               Cardinality({p \in Pixels : i = p[2] * Width + p[1]
                                           /\ task[p].pc = "done"}))
  /\ [](AllDone => \A i \in Cells : nWrites[i] = 1)

\* the loop has ended with a lit pixel in the buffer
C11_Witness ==
  /\ AllDone
  /\ \A i \in Cells : nWrites[i] = 1
  /\ \E i \in Cells : pixels[i] # <<>>

\* the events of io
Events == {io[k] : k \in 1..Len(io)}
\* a pixel task has started
SomeTaskStarted == task # <<>> /\ \E p \in Pixels : task[p].pc # "idle"
\* saveToPPM has begun to open or write the image file
EncodingBegun == Events \cap {"openOutput", "openOutputFailed", "writeImage"} # {}

\* C12: the input file is opened and the density grid read before the first
\* pixel task starts; no I/O happens while the parallel region runs; the
\* image file is opened and written only after every pixel task has
\* finished, and once encoding has begun no task moves and no pixel changes.
C12_IOAroundParallelRegion ==
  /\ [](SomeTaskStarted =>
          Len(io) >= 2 /\ io[1] = "openInput" /\ io[2] = "readGrid")
  /\ [](EncodingBegun =>
          task # <<>> /\ \A p \in Pixels : task[p].pc = "done")
  /\ [][(mainPc = "parallel" /\ mainPc' = "parallel") => io' = io]_vars
  /\ [][EncodingBegun => (pixels' = pixels /\ task' = task)]_vars

\* a render that loaded, ran every task and wrote the image
C12_Witness ==
  /\ mainPc = "exited" /\ exitStatus = 0
  /\ outFile # <<>>
  /\ io = <<"openInput", "readGrid", "openOutput", "writeImage",
            "printSaved", "closeInput">>
  /\ \E i \in Cells : pixels[i] # <<>>

\* main has returned
Exited == mainPc = "exited"
\* an exception is raised while loading or rendering: the file cannot be
\* opened, it has no grid named "density", or the pixel buffer cannot be
\* allocated
Raises ==
  \/ ~env.exists
  \/ ~env.hasDensity
  \/ (env.floatGrid /\ ~env.memOk)

\* C13: with an argument count other than one positional argument main
\* prints the usage message and returns 1 without opening or writing a file;
\* when an exception is raised while loading or rendering it prints an error
\* message and returns 1; it returns 0, after printing the output filename,
\* only when load, render and save all ran.
C13_ExitStatus ==
  /\ argc # 2 =>
       /\ io \in {<<>>, <<"usage">>} /\ outFile = <<>>
       /\ Exited => (exitStatus = 1 /\ io = <<"usage">>)
  /\ (argc = 2 /\ Raises /\ Exited) =>
       /\ exitStatus = 1
       /\ io # <<>> /\ io[Len(io)] = "error"
       /\ "printSaved" \notin Events
  /\ Exited => exitStatus \in {0, 1}
  /\ (Exited /\ exitStatus = 0) =>
       /\ argc = 2
       /\ Len(io) >= 2 /\ io[1] = "openInput" /\ io[2] = "readGrid"
       /\ \A p \in Pixels : task[p].pc = "done"
       /\ EncodingBegun
       /\ io[Len(io) - 1] = "printSaved"

\* the input file opens but has no density grid: error message, status 1
C13_Witness ==
  /\ Exited /\ exitStatus = 1
  /\ io = <<"openInput", "error">>

\* C14: when the output image file cannot be opened, the failure of the save
\* is reported, main returns a non-zero status and does not announce that
\* the image was saved.
C14_WriteFailureReported ==
  (Exited /\ "openOutputFailed" \in Events) =>
     /\ exitStatus # 0
     /\ "printSaved" \notin Events
     /\ "error" \in Events

\* the double v is a number of [0, 1]
InUnit(v) == v # NaN /\ 0 <= v[1] /\ v[1] <= 2

\* C15: after construction and after any sequence of setPixel and fill calls
\* every stored red, green and blue value of every cell of the Image is in
\* [0, 1], and a setPixel with coordinates outside 0 <= x < width,
\* 0 <= y < height changes no cell.
C15_ImageRange ==
  /\ [](\A c \in DOMAIN image.red :
          InUnit(image.red[c]) /\ InUnit(image.green[c]) /\ InUnit(image.blue[c]))
  /\ [][(/\ lastOp'.op = "setPixel"
          /\ ~(/\ 0 <= lastOp'.x /\ lastOp'.x < image.width
               /\ 0 <= lastOp'.y /\ lastOp'.y < image.height))
          => image' = image]_vars

\* reading a PPM header back: the decimal number that starts at position i
\* of f, and the position after its last digit
RECURSIVE ParseNat(_, _, _)
ParseNat(f, i, acc) ==
  IF i <= Len(f) /\ f[i] >= 48 /\ f[i] <= 57
  THEN ParseNat(f, i + 1, 10 * acc + (f[i] - 48))
  ELSE [value |-> acc, next |-> i]
\* magic "P6", newline, width, blank, height, newline, maxval, newline, data
ParsePPM(f) ==
  LET w == ParseNat(f, 4, 0)
      h == ParseNat(f, w.next + 1, 0)
      m == ParseNat(f, h.next + 1, 0)
  IN  [magic |-> <<f[1], f[2]>>,
       seps |-> <<f[3], f[w.next], f[h.next], f[m.next]>>,
       width |-> w.value, height |-> h.value, maxval |-> m.value,
       digits |-> (w.next - 4) + (h.next - w.next - 1) + (m.next - h.next - 1),
       data |-> SubSeq(f, m.next + 1, Len(f))]
\* b is min(trunc(255 * c), 255) for the channel c (in 1/510)
IsByteOf(b, c) ==
  \/ b = 255 /\ c >= 510
  \/ b < 255 /\ 2 * b <= c /\ c < 2 * b + 2
PureRed == <<510, 0, 0>>

\* C16: the file saveToPPM writes for a width x height buffer of
\* non-negative colors is the header "P6\n<width> <height>\n255\n" followed
\* by exactly width*height byte triplets in buffer order, each byte being
\* min(trunc(255*c), 255) of its channel; a 2x2 buffer of pure red reads back
\* as width 2, height 2, maxval 255 and first triplet (255, 0, 0).
C16_PPMEncoding ==
  (mainPc = "saved" /\ env.outOk) =>
    LET f == ParsePPM(outFile) IN
      /\ f.magic = <<80, 54>>
      /\ f.seps = <<10, 32, 10, 10>>
      /\ f.width = width /\ f.height = height /\ f.maxval = 255
      /\ f.digits >= 5
      /\ Len(f.data) = 3 * width * height
      /\ \A k \in 1..(width * height) : \A ch \in 1..3 :
            IsByteOf(f.data[3 * (k - 1) + ch], pixels[k][ch])
      /\ (width = 2 /\ height = 2 /\ \A k \in 1..4 : pixels[k] = PureRed) =>
            /\ SubSeq(outFile, 1, 11) = <<80, 54, 10, 50, 32, 50, 10, 50, 53, 53, 10>>
            /\ SubSeq(outFile, 12, 14) = <<255, 0, 0>>
            /\ Len(outFile) = 23

\* the 2x2 buffer of pure red has been written
C16_Witness ==
  /\ mainPc = "saved" /\ env.outOk
  /\ width = 2 /\ height = 2
  /\ \A k \in 1..4 : pixels[k] = PureRed
  /\ Len(outFile) = 23

\* the sample points of the march that advances by stepSize from tMin, as
\* far as they lie before tMax
SampleTs == {tMin + k * stepSize : k \in 0..MaxSamples} \cap (tMin..(tMax - 1))
\* every primary sample of the ray returns density exactly zero
AllSamplesZero == \A tt \in SampleTs : sampleDensity(RayPos(tt)) = 0

\* C17: for a ray whose every primary sample returns density exactly zero,
\* the running transmittance is 1.0 (depth 0) at every step of the march, no
\* shadow ray is launched, and trace returns zero radiance.
C17_ZeroDensityRay ==
  (hit /\ pc \in {"march", "done"} /\ AllSamplesZero) =>
     /\ transmittance = 0
     /\ nShadow = 0
     /\ color = <<>>
     /\ last.iter => (last.density = 0 /\ last.before = 0 /\ last.shadow = <<>>)
     /\ pc = "done" => (result = <<>> /\ ~Positive(result))

\* a ray that took at least two samples inside the box, one of them in an
\* active voxel of value zero, and returned
C17_Witness ==
  /\ hit /\ pc = "done" /\ AllSamplesZero
  /\ nSamples >= 2
  /\ \E tt \in SampleTs : worldToIndexCellCentered(RayPos(tt)) \in DOMAIN grid
  /\ result = <<>>

\* the number of samples the last shadow march took
ShadowSamples == IF last.shadow = <<>> THEN 0 ELSE Len(last.shadow) - 1

\* C18: every trace terminates: after a hit reported by intersectBox the
\* primary march loop eventually exits, and each shadow march takes at most
\* ceil(20 / stepSize) samples.
C18_Terminates ==
  /\ (pc = "march") ~> (pc = "done")
  /\ []((ShadowSamples - 1) * stepSize < 2 * ShadowMaxDist)

\* C19: for any grid transform the world position of every active voxel lies
\* inside the box [t0, t1] that intersectBox tests the world-space ray
\* against, so a ray through an active voxel is reported as a hit and the
\* voxel lies within [tMin, tMax] of the march.
C19_BoxIsWorldSpace ==
  \A c \in DOMAIN grid :
    /\ InBox(VoxelWorld(c))
    /\ pc # "start" =>
         \A tt \in 1..FarT :
           RayPos(tt) = VoxelWorld(c) => (hit /\ tMin <= tt /\ tt <= tMax)

====
